---------------------------- MODULE Spec2Model ----------------------------
(***************************************************************************)
(* A model of the OpenDR toolkit glue code: the ROS2 bridge conversions,   *)
(* the object-detection ROS nodes, the ContinualSLAMLearner mode gate and  *)
(* the FSeq2NMSLearner (fit / save / load / infer).                        *)
(*                                                                         *)
(* Each component has its own specification (SpecBridge, SpecNode, ...);   *)
(* a component's actions leave the variables of the others unchanged.      *)
(***************************************************************************)
EXTENDS Integers, Sequences, FiniteSets, TLC

VARIABLES
    \* ---- ROS2Bridge round trips ----
    b_in,       \* the OpenDR object handed to to_ros_X (a BoundingBoxList or a Pose)
    b_msg,      \* the ROS2 message to_ros_X returned
    b_out,      \* what from_ros_X returned (or the exception it raised)
    b_pc,       \* "start" | "sent_<X>" | "done_<X>", X the data type converted
    \* ---- object detection nodes ----
    yolo_args,      \* the topics ObjectDetectionYOLOV5Node was constructed with
    yolo_self,      \* its publishers
    yolo_out,       \* per output, the inputs a message was published for, in order
    yolo_inputs,    \* the number of inputs its callback has handled
    gem_args, gem_self, gem_out, gem_inputs,    \* the same, of ObjectDetectionGemNode
    \* ---- ContinualSLAMLearner ----
    slam_arg,       \* the mode last handed to the constructor
    slam_self,      \* the constructed learner (constructed, mode, loaders)
    slam_calls,     \* the fit / infer calls made on it, with their outcomes
    slam_exc,       \* the exception the constructor raised, if any
    \* ---- FSeq2NMSLearner fit / save / load ----
    lrn,            \* the learner: its attributes and its model's state_dict
    fs,             \* the files on disk, by name
    lrn_result,     \* the last call made on the learner and how it ended
    lrn_ops,        \* the number of calls made on the learner
    \* ---- FSeq2NMSLearner.infer ----
    inf_in, inf_out, model_calls,
    \* ---- WhisperLearner ----
    wh_args,        \* the device and fp16 the WhisperLearner was constructed with
    wh_self,        \* the learner: fp16, decode_options.fp16, whether a model is loaded
    wh_result,      \* the last call made on the learner and how it ended
    wh_calls,       \* the number of times the model's transcribe was called
    wh_ops,         \* the number of calls made on the learner
    \* ---- IntentRecognitionLearner, test_save_load ----
    it_pc,          \* the next statement of test_save_load
    it_text,        \* the text given to infer
    it_learners,    \* learner and new_learner: the weights of their models
    it_fs,          \* the files on disk, by path
    it_preds,       \* old_pred and new_pred, the lists infer returned
    \* ---- RobotControlNode ----
    rc_group,       \* self.group, the shared MoveGroupCommander: its pose target
    rc_h            \* the service handlers in progress, one per request

bridgeVars == <<b_in, b_msg, b_out, b_pc>>
nodeVars == <<yolo_args, yolo_self, yolo_out, yolo_inputs, gem_args, gem_self, gem_out, gem_inputs>>
slamVars == <<slam_arg, slam_self, slam_calls, slam_exc>>
learnerVars == <<lrn, fs, lrn_result, lrn_ops>>
inferVars == <<inf_in, inf_out, model_calls>>
whisperVars == <<wh_args, wh_self, wh_result, wh_calls, wh_ops>>
intentVars == <<it_pc, it_text, it_learners, it_fs, it_preds>>
robotVars == <<rc_group, rc_h>>
vars == <<bridgeVars, nodeVars, slamVars, learnerVars, inferVars, whisperVars, intentVars, robotVars>>

(***************************************************************************)
(* Python values.  An int, a str (a sequence of characters) and None are   *)
(* kept apart by a tag, as Python keeps them apart: 3 == "3" is False.     *)
(***************************************************************************)
PyInt(n) == [kind |-> "int", num |-> n, str |-> <<>>]
PyStr(s) == [kind |-> "str", num |-> 0, str |-> s]
PyNone == [kind |-> "None", num |-> 0, str |-> <<>>]

\* A raised exception, as the outcome of a call.
Raised(e) == [ok |-> FALSE, exc |-> e]
Returned(v) == [ok |-> TRUE, val |-> v]

DigitChars == <<"0", "1", "2", "3", "4", "5", "6", "7", "8", "9">>

RECURSIVE NatToStr(_)
\* str(n) for n >= 0: the decimal digits, most significant first.
NatToStr(n) ==
    IF n < 10 THEN <<DigitChars[n + 1]>>
    ELSE NatToStr(n \div 10) \o <<DigitChars[(n % 10) + 1]>>

\* str(x) of a Python int or str.
PyStrOf(x) ==
    CASE x.kind = "int" -> IF x.num < 0 THEN <<"-">> \o NatToStr(-x.num) ELSE NatToStr(x.num)
      [] x.kind = "str" -> x.str
      [] OTHER -> <<"N", "o", "n", "e">>

RECURSIVE LStrip(_, _)
LStrip(s, chars) ==
    IF s # <<>> /\ Head(s) \in chars THEN LStrip(Tail(s), chars) ELSE s

RECURSIVE RStrip(_, _)
RStrip(s, chars) ==
    IF s # <<>> /\ s[Len(s)] \in chars THEN RStrip(SubSeq(s, 1, Len(s) - 1), chars) ELSE s

\* s.strip(chars)
Strip(s, chars) == RStrip(LStrip(s, chars), chars)

RECURSIVE SplitFirst(_)
\* s.split(', ')[0]: the text before the first ", ".
SplitFirst(s) ==
    IF Len(s) < 2 THEN s
    ELSE IF s[1] = "," /\ s[2] = " " THEN <<>>
    ELSE <<Head(s)>> \o SplitFirst(Tail(s))

DigitVal(c) == CHOOSE d \in 0..9 : DigitChars[d + 1] = c
IsDigit(c) == \E d \in 0..9 : DigitChars[d + 1] = c

RECURSIVE DigitsToNat(_)
DigitsToNat(s) ==
    IF s = <<>> THEN 0 ELSE 10 * DigitsToNat(SubSeq(s, 1, Len(s) - 1)) + DigitVal(s[Len(s)])

\* The digits before a "." (or all of s).
RECURSIVE IntPart(_)
IntPart(s) ==
    IF s = <<>> \/ Head(s) = "." THEN <<>> ELSE <<Head(s)>> \o IntPart(Tail(s))

FracPart(s) == SubSeq(s, Len(IntPart(s)) + 2, Len(s))

\* Whether float(s) accepts the unsigned text s: digits with at most one ".".
IsUnsignedFloatText(s) ==
    /\ \A i \in 1..Len(IntPart(s)) : IsDigit(IntPart(s)[i])
    /\ \A i \in 1..Len(FracPart(s)) : IsDigit(FracPart(s)[i])
    /\ Len(IntPart(s)) + Len(FracPart(s)) > 0

\* int(float(s)): the integer part of the number s spells, or ValueError.
IntOfFloatStr(s) ==
    LET neg == s # <<>> /\ Head(s) = "-"
        body == IF neg THEN Tail(s) ELSE s
    IN  IF IsUnsignedFloatText(body)
        THEN Returned(IF neg THEN -DigitsToNat(IntPart(body)) ELSE DigitsToNat(IntPart(body)))
        ELSE Raised("ValueError")

(***************************************************************************)
(* Python floats.  A float is a whole number of quanta (the smallest       *)
(* increment), kept to FpBits significant bits: every operation computes   *)
(* the exact result and rounds it to the nearest representable value,      *)
(* ties to even, as IEEE-754 binary64 does with 53 bits.                   *)
(***************************************************************************)
FpBits == 3

RECURSIVE Pow2(_)
Pow2(e) == IF e = 0 THEN 1 ELSE 2 * Pow2(e - 1)

RECURSIVE FpExp(_)
\* The exponent e at which n (>= 0) has at most FpBits significant bits.
FpExp(n) == IF n < Pow2(FpBits) THEN 0 ELSE 1 + FpExp(n \div 2)

FpRoundNat(n) ==
    LET e == FpExp(n)
        q == n \div Pow2(e)
        r == n % Pow2(e)
    IN  IF 2 * r > Pow2(e) \/ (2 * r = Pow2(e) /\ q % 2 = 1)
        THEN (q + 1) * Pow2(e)
        ELSE q * Pow2(e)

FpRound(n) == IF n < 0 THEN -FpRoundNat(-n) ELSE FpRoundNat(n)
FpRepresentable(n) == FpRound(n) = n

FpAdd(a, b) == FpRound(a + b)
FpSub(a, b) == FpRound(a - b)
\* x / 2.0: exact unless the result falls below one quantum, then ties to even.
FpHalf(a) ==
    LET m == IF a < 0 THEN -a ELSE a
        h == IF m % 2 = 0 THEN m \div 2
             ELSE IF ((m \div 2) % 2) = 0 THEN m \div 2 ELSE (m \div 2) + 1
    IN  IF a < 0 THEN -h ELSE h


(***************************************************************************)
(* Numbers in a Pose.  Keypoint coordinates are counted in half pixels, so *)
(* that a non-integer coordinate (1.5) exists and int() has something to   *)
(* truncate.                                                               *)
(***************************************************************************)
\* int(v): truncation toward zero, the result a whole number.
IntTrunc(v) == IF v < 0 THEN -((-v) \div 2) ELSE v \div 2
\* The number a whole integer n is, in half pixels.
NumOfInt(n) == 2 * n
IsWhole(v) == v % 2 = 0

(***************************************************************************)
(* The inputs of the bridge.                                               *)
(***************************************************************************)
MaxBoxes == 2
MaxKpts == 2

BoxNames == {PyInt(0), PyInt(12), PyStr(<<"c", "a", "t">>)}
\* <<left, top, width>>: centers computed exactly, and a left and a top whose center
\* (left + width/2, top + height/2) has to be rounded.
BoxGeoms == {<<0, 0, 2>>, <<1, 0, 2>>, <<1, 0, Pow2(FpBits + 1)>>, <<0, 1, 2>>}
BoxHeights == {Pow2(FpBits + 1)}
BoxScores == {0, 2}

\* engine.target.BoundingBox(name, left, top, width, height, score)
BoundingBox(name, left, top, width, height, score) ==
    [name |-> name, left |-> left, top |-> top, width |-> width, height |-> height,
     confidence |-> score]

BoundingBoxes ==
    {BoundingBox(n, g[1], g[2], g[3], h, c) :
        n \in BoxNames, g \in BoxGeoms, h \in BoxHeights, c \in BoxScores}

SeqsUpTo(S, n) == UNION {[1..k -> S] : k \in 0..n}

KptVals == {-2, 3, 10}
KptVals3D == {-2, 3}
PoseConfs == {0, 3}
PoseIds == {PyNone, PyInt(0), PyInt(2)}

\* engine.target.Pose(keypoints, confidence), with its id attribute.
Pose(data, confidence, id) == [data |-> data, confidence |-> confidence, id |-> id]

Poses(dim, vals) ==
    {Pose(d, c, i) : d \in SeqsUpTo([1..dim -> vals], MaxKpts), c \in PoseConfs, i \in PoseIds}

(***************************************************************************)
(* ROS2 messages.  A message has exactly the fields of its definition;     *)
(* reading any other attribute raises AttributeError.                      *)
(***************************************************************************)
\* vision_msgs.msg.ObjectHypothesisWithPose(): fields id (string) and score (float64).
ObjectHypothesisWithPose == [id |-> <<>>, score |-> 0]
\* opendr_ros2_messages.msg.OpenDRPose2D(): pose_id, conf, keypoint_list.
OpenDRPose2D == [pose_id |-> 0, conf |-> 0, keypoint_list |-> <<>>]
OpenDRPose3D == [pose_id |-> 0, conf |-> 0, keypoint_list |-> <<>>]

HasAttr(msg, field) == field \in DOMAIN msg

\* One Detection2D of to_ros_boxes.
ToRosBox(box) ==
    [bbox |-> [center |-> [x |-> FpAdd(box.left, FpHalf(box.width)),
                           y |-> FpAdd(box.top, FpHalf(box.height))],
               size_x |-> box.width,
               size_y |-> box.height],
     results |-> <<[ObjectHypothesisWithPose EXCEPT
                      !.id = PyStrOf(box.name),
                      !.score = IF box.confidence # 0 THEN box.confidence ELSE @]>>]

\* ROS2Bridge.to_ros_boxes
to_ros_boxes(box_list) ==
    Returned([detections |-> [i \in 1..Len(box_list) |-> ToRosBox(box_list[i])]])

\* The class id from_ros_boxes reads from a detection: int(float(id.strip('][').split(', ')[0]))
BoxIdOf(det) == IntOfFloatStr(SplitFirst(Strip(det.results[1].id, {"]", "["})))

\* A faulty variant of FromRosBoxLeft: the whole width is subtracted.
MutFromRosBoxLeft(det) == FpSub(det.bbox.center.x, det.bbox.size_x)
\* left = center.x - width / 2.
FromRosBoxLeft(det) == FpSub(det.bbox.center.x, FpHalf(det.bbox.size_x))

\* One BoundingBox of from_ros_boxes (the score is the constructor's default 0).
FromRosBox(det) ==
    BoundingBox(PyInt(BoxIdOf(det).val),
                FromRosBoxLeft(det),
                FpSub(det.bbox.center.y, FpHalf(det.bbox.size_y)),
                det.bbox.size_x, det.bbox.size_y, 0)

\* ROS2Bridge.from_ros_boxes
from_ros_boxes(ros_detections) ==
    LET dets == ros_detections.detections
    IN  IF \E i \in 1..Len(dets) : ~BoxIdOf(dets[i]).ok
        THEN Raised("ValueError")
        ELSE Returned([i \in 1..Len(dets) |-> FromRosBox(dets[i])])

\* One Detection2D of to_ros_bounding_box_list: the score is always set.
ToRosBoundingBox(box) ==
    [bbox |-> [center |-> [x |-> FpAdd(box.left, FpHalf(box.width)),
                           y |-> FpAdd(box.top, FpHalf(box.height))],
               size_x |-> box.width,
               size_y |-> box.height],
     results |-> <<[ObjectHypothesisWithPose EXCEPT
                      !.id = PyStrOf(box.name), !.score = box.confidence]>>]

\* ROS2Bridge.to_ros_bounding_box_list
to_ros_bounding_box_list(bounding_box_list) ==
    Returned([detections |->
        [i \in 1..Len(bounding_box_list) |-> ToRosBoundingBox(bounding_box_list[i])]])

\* One BoundingBox of from_ros_bounding_box_list; the score is read from
\* detection.results[0].confidence.
FromRosBoundingBox(det) ==
    IF HasAttr(det.results[1], "confidence")
    THEN Returned(BoundingBox(PyStr(det.results[1].id),
                              FpSub(det.bbox.center.x, FpHalf(det.bbox.size_x)),
                              FpSub(det.bbox.center.y, FpHalf(det.bbox.size_y)),
                              det.bbox.size_x, det.bbox.size_y,
                              det.results[1].confidence))
    ELSE Raised("AttributeError")

\* ROS2Bridge.from_ros_bounding_box_list
from_ros_bounding_box_list(ros_detection_2d_array) ==
    LET dets == ros_detection_2d_array.detections
    IN  IF \E i \in 1..Len(dets) : ~FromRosBoundingBox(dets[i]).ok
        THEN Raised("AttributeError")
        ELSE Returned([i \in 1..Len(dets) |-> FromRosBoundingBox(dets[i]).val])

\* ROS2Bridge.to_ros_pose
to_ros_pose(pose) ==
    IF pose.id.kind = "None"
    THEN Raised("TypeError")
    ELSE Returned([OpenDRPose2D EXCEPT
            !.pose_id = pose.id.num,
            !.conf = IF pose.confidence # 0 THEN pose.confidence ELSE @,
            !.keypoint_list =
                [i \in 1..Len(pose.data) |->
                    [kpt_name |-> i,
                     x |-> IntTrunc(pose.data[i][1]),
                     y |-> IntTrunc(pose.data[i][2])]]])

\* ROS2Bridge.from_ros_pose
from_ros_pose(ros_pose) ==
    Returned(Pose([i \in 1..Len(ros_pose.keypoint_list) |->
                      <<NumOfInt(ros_pose.keypoint_list[i].x),
                        NumOfInt(ros_pose.keypoint_list[i].y)>>],
                  ros_pose.conf,
                  PyInt(ros_pose.pose_id)))

\* ROS2Bridge.to_ros_pose_3D
to_ros_pose_3D(pose) ==
    Returned([OpenDRPose3D EXCEPT
        !.pose_id = IF pose.id.kind # "None" THEN pose.id.num ELSE 0,
        !.conf = 1,
        !.keypoint_list =
            [i \in 1..Len(pose.data) |->
                [kpt_name |-> <<>>,
                 x |-> pose.data[i][1], y |-> pose.data[i][2], z |-> pose.data[i][3]]]])

\* ROS2Bridge.from_ros_pose_3D: the pose id is set to 0, whatever the message holds.
from_ros_pose_3D(ros_pose) ==
    Returned(Pose([i \in 1..Len(ros_pose.keypoint_list) |->
                      <<ros_pose.keypoint_list[i].x, ros_pose.keypoint_list[i].y,
                        ros_pose.keypoint_list[i].z>>],
                  1,
                  PyInt(0)))

(***************************************************************************)
(* The bridge as a state machine: an object is converted to a message,     *)
(* and the message back to an object.                                      *)
(***************************************************************************)
NoPose == Pose(<<>>, 0, PyNone)

\* The input of a round trip: a BoundingBoxList, a 2D Pose or a 3D Pose.
BridgeInputs ==
    {[type |-> "boxes", boxes |-> l, pose |-> NoPose] : l \in SeqsUpTo(BoundingBoxes, MaxBoxes)}
    \cup {[type |-> "pose2d", boxes |-> <<>>, pose |-> p] : p \in Poses(2, KptVals)}
    \cup {[type |-> "pose3d", boxes |-> <<>>, pose |-> p] : p \in Poses(3, KptVals3D)}

\* to_ros_X of the input; an exception it raises is the outcome of the round trip.
ToRos(type, X, msg) ==
    /\ b_pc = "start"
    /\ b_in.type = type
    /\ b_msg' = msg
    /\ IF msg.ok
       THEN b_pc' = "sent_" \o X /\ b_out' = b_out
       ELSE b_pc' = "done_" \o X /\ b_out' = msg
    /\ UNCHANGED <<b_in, nodeVars, slamVars, learnerVars, inferVars, whisperVars, intentVars, robotVars>>

FromRos(X, out) ==
    /\ b_pc = "sent_" \o X
    /\ b_out' = out
    /\ b_pc' = "done_" \o X
    /\ UNCHANGED <<b_in, b_msg, nodeVars, slamVars, learnerVars, inferVars, whisperVars,
                   intentVars, robotVars>>

ToRosBoxes == ToRos("boxes", "boxes", to_ros_boxes(b_in.boxes))
FromRosBoxes == FromRos("boxes", from_ros_boxes(b_msg.val))
ToRosBoundingBoxList == ToRos("boxes", "bounding_box_list", to_ros_bounding_box_list(b_in.boxes))
FromRosBoundingBoxList == FromRos("bounding_box_list", from_ros_bounding_box_list(b_msg.val))
ToRosPose == ToRos("pose2d", "pose", to_ros_pose(b_in.pose))
FromRosPose == FromRos("pose", from_ros_pose(b_msg.val))
ToRosPose3D == ToRos("pose3d", "pose_3D", to_ros_pose_3D(b_in.pose))
FromRosPose3D == FromRos("pose_3D", from_ros_pose_3D(b_msg.val))

BridgeNext ==
    \/ ToRosBoxes
    \/ FromRosBoxes
    \/ ToRosBoundingBoxList
    \/ FromRosBoundingBoxList
    \/ ToRosPose
    \/ FromRosPose
    \/ ToRosPose3D
    \/ FromRosPose3D


InitBridge ==
    /\ b_in \in BridgeInputs
    /\ b_msg = Returned(<<>>)
    /\ b_out = Returned(<<>>)
    /\ b_pc = "start"
    /\ yolo_args = <<>> /\ yolo_self = <<>> /\ yolo_out = <<>> /\ yolo_inputs = 0
    /\ gem_args = <<>> /\ gem_self = <<>> /\ gem_out = <<>> /\ gem_inputs = 0
    /\ slam_arg = "" /\ slam_self = <<>> /\ slam_calls = <<>> /\ slam_exc = ""
    /\ lrn = <<>> /\ fs = <<>> /\ lrn_result = <<>> /\ lrn_ops = 0
    /\ inf_in = <<>> /\ inf_out = <<>> /\ model_calls = 0
    /\ wh_args = <<>> /\ wh_self = <<>> /\ wh_result = <<>> /\ wh_calls = 0 /\ wh_ops = 0
    /\ it_pc = 0 /\ it_text = <<>> /\ it_learners = <<>> /\ it_fs = <<>> /\ it_preds = <<>>
    /\ rc_group = <<>> /\ rc_h = <<>>

SpecBridge == InitBridge /\ [][BridgeNext]_vars

(***************************************************************************)
(* Properties of the bridge round trips.                                   *)
(***************************************************************************)
AllNamesInt(boxes) == \A i \in 1..Len(boxes) : boxes[i].name.kind = "int"
AllKptsWhole(pose) ==
    \A i \in 1..Len(pose.data) : \A j \in DOMAIN pose.data[i] : IsWhole(pose.data[i][j])

\* C1: from_ros_bounding_box_list(to_ros_bounding_box_list(L)) returns a list with as
\* many boxes as L, in the same order, each with the name, left, top, width, height
\* and confidence of the corresponding box of L.
C1_BoundingBoxListRoundTrip ==
    b_pc = "done_bounding_box_list" =>
        /\ b_out.ok
        /\ Len(b_out.val) = Len(b_in.boxes)
        /\ \A i \in 1..Len(b_in.boxes) : b_out.val[i] = b_in.boxes[i]

\* C2: for every Pose with integer keypoint coordinates and any confidence,
\* from_ros_pose(to_ros_pose(p)) has the keypoints, the confidence and the id of p.
C2_PoseRoundTrip ==
    (b_pc = "done_pose" /\ AllKptsWhole(b_in.pose)) =>
        /\ b_out.ok
        /\ b_out.val.data = b_in.pose.data
        /\ b_out.val.confidence = b_in.pose.confidence
        /\ b_out.val.id = b_in.pose.id

\* What holds of to_ros_pose / from_ros_pose: the round trip is the identity on every
\* Pose with integer keypoint coordinates whose id is set, and raises TypeError on a
\* Pose whose id is None.
PoseRoundTripWhenIdSet ==
    (b_pc = "done_pose" /\ AllKptsWhole(b_in.pose)) =>
        IF b_in.pose.id.kind = "None"
        THEN b_out = Raised("TypeError")
        ELSE b_out = Returned(b_in.pose)

\* C3: from_ros_pose_3D(to_ros_pose_3D(p)) has the (x, y, z) keypoints of p, in the
\* same order, and the pose id of p.
C3_Pose3DRoundTrip ==
    b_pc = "done_pose_3D" =>
        /\ b_out.ok
        /\ b_out.val.data = b_in.pose.data
        /\ b_out.val.id = b_in.pose.id

\* What holds of to_ros_pose_3D / from_ros_pose_3D: the keypoints come back, the id
\* comes back as 0 and the confidence as 1.0.
Pose3DRoundTripKeypoints ==
    b_pc = "done_pose_3D" =>
        b_out = Returned(Pose(b_in.pose.data, 1, PyInt(0)))

\* C4 as stated: for every BoundingBoxList whose names are integer class ids,
\* from_ros_boxes(to_ros_boxes(L)) has as many boxes as L, in the same order, each
\* with exactly the left, top, width, height and name of the box of L.
C4_BoxesRoundTripExact ==
    (b_pc = "done_boxes" /\ AllNamesInt(b_in.boxes)) =>
        /\ b_out.ok
        /\ Len(b_out.val) = Len(b_in.boxes)
        /\ \A i \in 1..Len(b_in.boxes) :
            /\ b_out.val[i].name = b_in.boxes[i].name
            /\ b_out.val[i].width = b_in.boxes[i].width
            /\ b_out.val[i].height = b_in.boxes[i].height
            /\ b_out.val[i].left = b_in.boxes[i].left
            /\ b_out.val[i].top = b_in.boxes[i].top

\* C4 (amended): for every BoundingBoxList whose names are integer class ids, the
\* round trip keeps the number and order of the boxes and each box's name, width and
\* height; it gives back left (top) exactly whenever the center left + width/2
\* (top + height/2) is computed without rounding.
C4_BoxesRoundTrip ==
    (b_pc = "done_boxes" /\ AllNamesInt(b_in.boxes)) =>
        /\ b_out.ok
        /\ Len(b_out.val) = Len(b_in.boxes)
        /\ \A i \in 1..Len(b_in.boxes) :
            LET box == b_in.boxes[i] IN
            /\ b_out.val[i].name = box.name
            /\ b_out.val[i].width = box.width
            /\ b_out.val[i].height = box.height
            /\ FpRepresentable(box.left + FpHalf(box.width)) => b_out.val[i].left = box.left
            /\ FpRepresentable(box.top + FpHalf(box.height)) => b_out.val[i].top = box.top

\* A round trip through to_ros_boxes of two boxes named by class ids, one of them
\* with a non-zero left whose center is computed exactly.
C4_Witness ==
    /\ b_pc = "done_boxes"
    /\ b_out.ok
    /\ Len(b_in.boxes) = 2
    /\ AllNamesInt(b_in.boxes)
    /\ b_in.boxes[1].name = PyInt(12)
    /\ b_in.boxes[1].left = 1
    /\ FpRepresentable(b_in.boxes[1].left + FpHalf(b_in.boxes[1].width))
    /\ b_out.val[1].left = 1

(***************************************************************************)
(* The object detection nodes.  A node is constructed with its output      *)
(* topics, each a topic name or None; its callback handles one input.      *)
(***************************************************************************)
MaxInputs == 3

Topic(name) == PyStr(name)
Publisher(topic) == [kind |-> "Publisher", num |-> 0, str |-> topic.str]
\* bool(x) of a publisher attribute: None is false, a Publisher is true.
Truthy(x) == x.kind # "None"

YoloTopicArgs ==
    [output_rgb_image_topic : {PyNone, Topic(<<"i">>)},
     detections_topic : {PyNone, Topic(<<"d">>)},
     performance_topic : {PyNone, Topic(<<"p">>)}]

\* ObjectDetectionYOLOV5Node.__init__: one publisher per topic that is not None.
YoloNodeInit(args) ==
    [image_publisher |->
        IF args.output_rgb_image_topic # PyNone
        THEN Publisher(args.output_rgb_image_topic) ELSE PyNone,
     object_publisher |->
        IF args.detections_topic # PyNone THEN Publisher(args.detections_topic) ELSE PyNone,
     performance_publisher |->
        IF args.performance_topic # PyNone THEN Publisher(args.performance_topic) ELSE PyNone]

\* A faulty variant of YoloCallbackPublishes: the performance message is published
\* whether or not its publisher exists.
MutYoloCallbackPublishes(self) ==
    [performance |-> TRUE,
     detections |-> self.object_publisher # PyNone,
     image |-> self.image_publisher # PyNone]
\* The outputs one run of ObjectDetectionYOLOV5Node.callback publishes a message on.
YoloCallbackPublishes(self) ==
    [performance |-> Truthy(self.performance_publisher),
     detections |-> self.object_publisher # PyNone,
     image |-> self.image_publisher # PyNone]

\* ObjectDetectionYOLOV5Node.callback, for the next input.
YoloCallback ==
    /\ yolo_inputs < MaxInputs
    /\ yolo_inputs' = yolo_inputs + 1
    /\ yolo_out' =
        [r \in DOMAIN yolo_out |->
            IF YoloCallbackPublishes(yolo_self)[r]
            THEN Append(yolo_out[r], yolo_inputs + 1) ELSE yolo_out[r]]
    /\ UNCHANGED <<yolo_args, yolo_self, gem_args, gem_self, gem_out, gem_inputs>>
    /\ UNCHANGED <<bridgeVars, slamVars, learnerVars, inferVars, whisperVars, intentVars, robotVars>>

GemTopicArgs ==
    [output_rgb_image_topic : {PyNone, Topic(<<"r">>)},
     output_infra_image_topic : {PyNone, Topic(<<"f">>)},
     detections_topic : {PyNone, Topic(<<"d">>)}]

\* ObjectDetectionGemNode.__init__
GemNodeInit(args) ==
    [rgb_publisher |->
        IF args.output_rgb_image_topic # PyNone
        THEN Publisher(args.output_rgb_image_topic) ELSE PyNone,
     ir_publisher |->
        IF args.output_infra_image_topic # PyNone
        THEN Publisher(args.output_infra_image_topic) ELSE PyNone,
     detection_publisher |->
        IF args.detections_topic # PyNone THEN Publisher(args.detections_topic) ELSE PyNone]

\* The outputs one run of ObjectDetectionGemNode.callback publishes a message on.
GemCallbackPublishes(self) ==
    [detections |-> self.detection_publisher # PyNone,
     rgb |-> self.rgb_publisher # PyNone,
     ir |-> self.ir_publisher # PyNone]

\* ObjectDetectionGemNode.callback, for the next pair of input images.
GemCallback ==
    /\ gem_inputs < MaxInputs
    /\ gem_inputs' = gem_inputs + 1
    /\ gem_out' =
        [r \in DOMAIN gem_out |->
            IF GemCallbackPublishes(gem_self)[r]
            THEN Append(gem_out[r], gem_inputs + 1) ELSE gem_out[r]]
    /\ UNCHANGED <<gem_args, gem_self, yolo_args, yolo_self, yolo_out, yolo_inputs>>
    /\ UNCHANGED <<bridgeVars, slamVars, learnerVars, inferVars, whisperVars, intentVars, robotVars>>

NodeNext ==
    \/ YoloCallback
    \/ GemCallback

InitNode ==
    /\ yolo_args \in YoloTopicArgs
    /\ yolo_self = YoloNodeInit(yolo_args)
    /\ yolo_out = [r \in {"performance", "detections", "image"} |-> <<>>]
    /\ yolo_inputs = 0
    /\ gem_args \in GemTopicArgs
    /\ gem_self = GemNodeInit(gem_args)
    /\ gem_out = [r \in {"detections", "rgb", "ir"} |-> <<>>]
    /\ gem_inputs = 0
    /\ b_in = <<>> /\ b_msg = <<>> /\ b_out = <<>> /\ b_pc = "idle"
    /\ slam_arg = "" /\ slam_self = <<>> /\ slam_calls = <<>> /\ slam_exc = ""
    /\ lrn = <<>> /\ fs = <<>> /\ lrn_result = <<>> /\ lrn_ops = 0
    /\ inf_in = <<>> /\ inf_out = <<>> /\ model_calls = 0
    /\ wh_args = <<>> /\ wh_self = <<>> /\ wh_result = <<>> /\ wh_calls = 0 /\ wh_ops = 0
    /\ it_pc = 0 /\ it_text = <<>> /\ it_learners = <<>> /\ it_fs = <<>> /\ it_preds = <<>>
    /\ rc_group = <<>> /\ rc_h = <<>>

SpecNode == InitNode /\ [][NodeNext]_vars

\* One message per handled input, in order of arrival.
OnePerInput(n) == [i \in 1..n |-> i]

\* C5: handling an input publishes a message on an output (annotated image(s),
\* detections, performance) if and only if its topic was not None at construction,
\* and then exactly one message per input; on an output whose topic is None nothing
\* is ever published.
C5_PublishIffConfigured ==
    /\ yolo_out.image =
        IF yolo_args.output_rgb_image_topic # PyNone THEN OnePerInput(yolo_inputs) ELSE <<>>
    /\ yolo_out.detections =
        IF yolo_args.detections_topic # PyNone THEN OnePerInput(yolo_inputs) ELSE <<>>
    /\ yolo_out.performance =
        IF yolo_args.performance_topic # PyNone THEN OnePerInput(yolo_inputs) ELSE <<>>
    /\ gem_out.rgb =
        IF gem_args.output_rgb_image_topic # PyNone THEN OnePerInput(gem_inputs) ELSE <<>>
    /\ gem_out.ir =
        IF gem_args.output_infra_image_topic # PyNone THEN OnePerInput(gem_inputs) ELSE <<>>
    /\ gem_out.detections =
        IF gem_args.detections_topic # PyNone THEN OnePerInput(gem_inputs) ELSE <<>>

\* Both callbacks have handled two inputs, each node with one output configured and
\* another given as None.
C5_Witness ==
    /\ yolo_inputs = 2 /\ gem_inputs = 2
    /\ yolo_args.performance_topic = PyNone /\ yolo_out.performance = <<>>
    /\ yolo_args.detections_topic # PyNone /\ yolo_out.detections = <<1, 2>>
    /\ gem_args.output_infra_image_topic = PyNone /\ gem_out.ir = <<>>
    /\ gem_args.detections_topic # PyNone /\ gem_out.detections = <<1, 2>>

(***************************************************************************)
(* ContinualSLAMLearner: the mode given to the constructor gates fit and   *)
(* infer.                                                                  *)
(***************************************************************************)
MaxCalls == 5

SlamModes == {"predictor", "learner", "trainer", ""}

\* No constructor call yet.
NoSlamArg == "<no call>"
NoSlamLearner == [constructed |-> FALSE, mode |-> "", loaders |-> FALSE]

\* ContinualSLAMLearner.__init__(config_file, mode, ros): the learner, or ValueError.
SlamInit(mode, ros) ==
    CASE mode = "predictor" ->
           Returned([constructed |-> TRUE, mode |-> mode, loaders |-> ~ros])
      [] mode = "learner" ->
           Returned([constructed |-> TRUE, mode |-> mode, loaders |-> ~ros])
      [] OTHER -> Raised("ValueError")

\* A faulty variant of SlamFit: the mode is not tested.
MutSlamFit(self) == "ran"
\* ContinualSLAMLearner.fit: "ran" when _fit was called.
SlamFit(self) == IF self.mode = "learner" THEN "ran" ELSE "ValueError"

\* ContinualSLAMLearner.infer: "ran" when _predict was called.
SlamInfer(self) == IF self.mode = "predictor" THEN "ran" ELSE "ValueError"

SlamConstruct ==
    /\ ~slam_self.constructed
    /\ \E mode \in SlamModes, ros \in BOOLEAN :
        /\ slam_arg' = mode
        /\ IF SlamInit(mode, ros).ok
           THEN slam_self' = SlamInit(mode, ros).val /\ slam_exc' = ""
           ELSE slam_self' = slam_self /\ slam_exc' = SlamInit(mode, ros).exc
    /\ UNCHANGED <<slam_calls, bridgeVars, nodeVars, learnerVars, inferVars, whisperVars,
                   intentVars, robotVars>>

SlamCall(op, outcome) ==
    /\ slam_self.constructed
    /\ Len(slam_calls) < MaxCalls
    /\ slam_calls' =
        Append(slam_calls, [op |-> op, outcome |-> outcome, mode |-> slam_self.mode])
    /\ UNCHANGED <<slam_arg, slam_self, slam_exc, bridgeVars, nodeVars, learnerVars, inferVars,
                   whisperVars, intentVars, robotVars>>

SlamFitCall == SlamCall("fit", SlamFit(slam_self))
SlamInferCall == SlamCall("infer", SlamInfer(slam_self))

SlamNext ==
    \/ SlamConstruct
    \/ SlamFitCall
    \/ SlamInferCall

InitSlam ==
    /\ slam_arg = NoSlamArg /\ slam_self = NoSlamLearner /\ slam_calls = <<>> /\ slam_exc = ""
    /\ b_in = <<>> /\ b_msg = <<>> /\ b_out = <<>> /\ b_pc = "idle"
    /\ yolo_args = <<>> /\ yolo_self = <<>> /\ yolo_out = <<>> /\ yolo_inputs = 0
    /\ gem_args = <<>> /\ gem_self = <<>> /\ gem_out = <<>> /\ gem_inputs = 0
    /\ lrn = <<>> /\ fs = <<>> /\ lrn_result = <<>> /\ lrn_ops = 0
    /\ inf_in = <<>> /\ inf_out = <<>> /\ model_calls = 0
    /\ wh_args = <<>> /\ wh_self = <<>> /\ wh_result = <<>> /\ wh_calls = 0 /\ wh_ops = 0
    /\ it_pc = 0 /\ it_text = <<>> /\ it_learners = <<>> /\ it_fs = <<>> /\ it_preds = <<>>
    /\ rc_group = <<>> /\ rc_h = <<>>

SpecSlam == InitSlam /\ [][SlamNext]_vars

\* C6: the constructor raises ValueError for any mode other than 'predictor' or
\* 'learner'; on a constructed learner fit runs only in mode 'learner' and infer only
\* in mode 'predictor', each raising ValueError otherwise, so after any sequence of
\* calls exactly one of fit / infer is usable and the mode is the one given at
\* construction.
C6_ModeGate ==
    /\ slam_exc = "ValueError" <=> (slam_arg # NoSlamArg /\ slam_arg \notin {"predictor", "learner"})
    /\ slam_exc = "ValueError" => ~slam_self.constructed
    /\ slam_self.constructed =>
        /\ slam_self.mode = slam_arg
        /\ slam_self.mode \in {"predictor", "learner"}
        /\ (SlamFit(slam_self) = "ran") # (SlamInfer(slam_self) = "ran")
        /\ {SlamFit(slam_self), SlamInfer(slam_self)} = {"ran", "ValueError"}
    /\ \A i \in 1..Len(slam_calls) :
        LET c == slam_calls[i] IN
        /\ c.mode = slam_arg
        /\ c.op = "fit" => (c.outcome = IF slam_arg = "learner" THEN "ran" ELSE "ValueError")
        /\ c.op = "infer" => (c.outcome = IF slam_arg = "predictor" THEN "ran" ELSE "ValueError")

\* A learner built as a predictor has been asked to infer, then to fit, then to infer
\* again: fit raised, infer ran both times.
C6_Witness ==
    /\ slam_self.constructed
    /\ slam_self.mode = "predictor"
    /\ Len(slam_calls) = 3
    /\ slam_calls[1].op = "infer" /\ slam_calls[1].outcome = "ran"
    /\ slam_calls[2].op = "fit" /\ slam_calls[2].outcome = "ValueError"
    /\ slam_calls[3].op = "infer" /\ slam_calls[3].outcome = "ran"

(***************************************************************************)
(* FSeq2NMSLearner: construction, fit, save and load.                      *)
(***************************************************************************)
MaxOps == 3
MaxSamples == 2

LqDim == 256
SqDim == 128
GeomInputDim == 14
NumJPUs == 4
DefaultAppInputDim == 315

AppInputDims == {DefaultAppInputDim, 64}
EpochArgs == {PyNone, PyInt(0), PyInt(2), PyInt(3)}
CheckpointLoadIters == {0, 2}
CheckpointAfterIters == {0, 2}

\* A tensor of a state_dict: its size and (abstractly) its values.
Tensor(size, val) == [size |-> size, val |-> val]

\* FSeq2NMSLearner.init_model: a fresh FSeq2Net, its layers sized by the dimensions.
InitModel(geom_input_dim, app_input_dim) ==
    [geom |-> Tensor(geom_input_dim, 0), app |-> Tensor(app_input_dim, 0)]

\* FSeq2NMSLearner.__init__: the attributes it sets (app_feats is not one of them).
LearnerInit(epochs, checkpoint_after_iter, checkpoint_load_iter, app_input_dim) ==
    [epochs |-> epochs,
     app_input_dim |-> app_input_dim,
     lq_dim |-> LqDim,
     sq_dim |-> SqDim,
     geom_input_dim |-> GeomInputDim,
     num_JPUs |-> NumJPUs,
     checkpoint_after_iter |-> checkpoint_after_iter,
     checkpoint_load_iter |-> checkpoint_load_iter,
     classes |-> PyNone,
     model |-> InitModel(GeomInputDim, app_input_dim)]

\* Files: <path>.pth and <path>.json.
UserPaths == {"out/a"}
PretrainedPath == "pretrained/fseq2"
CheckpointPath(epoch) == "temp/checkpoint_epoch_" \o DigitChars[epoch + 1]
LastWeightsPath == "temp/last_weights"
MaxEpochArg == 3
AllPaths ==
    UserPaths \cup {PretrainedPath, LastWeightsPath}
    \cup {CheckpointPath(e) : e \in 0..(MaxEpochArg - 1)}
Pth(path) == path \o ".pth"
Json(path) == path \o ".json"
FileNames == {Pth(q) : q \in AllPaths} \cup {Json(q) : q \in AllPaths}

NoFile == [exists |-> FALSE, data |-> <<>>]
File(data) == [exists |-> TRUE, data |-> data]

\* The metadata save() writes to <path>.json (the fields load() reads back).
Metadata(self, path) ==
    [model_paths |-> <<Pth(path)>>,
     lq_dim |-> self.lq_dim, sq_dim |-> self.sq_dim, num_JPUs |-> self.num_JPUs,
     geom_input_dim |-> self.geom_input_dim, app_input_dim |-> self.app_input_dim]

\* FSeq2NMSLearner.save(path, current_epoch=...): the files afterwards, how it ended,
\* and the files it wrote.  torch.save writes <path>.pth first; building the metadata
\* then reads self.app_feats.
Save(self, files, path, current_epoch) ==
    LET pth == File([state_dict |-> self.model, current_epoch |-> current_epoch])
        files1 == [files EXCEPT ![Pth(path)] = pth]
    IN  IF "app_feats" \in DOMAIN self
        THEN [files |-> [files1 EXCEPT ![Json(path)] = File(Metadata(self, path))],
              outcome |-> "ok",
              written |-> {Pth(path), Json(path)}]
        ELSE [files |-> files1, outcome |-> "AttributeError", written |-> {Pth(path)}]

\* FSeq2NMSLearner.assign_params
AssignParams(self, metadata) ==
    [self EXCEPT
        !.geom_input_dim = metadata.geom_input_dim,
        !.app_input_dim = metadata.app_input_dim,
        !.lq_dim = metadata.lq_dim,
        !.sq_dim = metadata.sq_dim,
        !.num_JPUs = metadata.num_JPUs]

\* FSeq2NMSLearner.load_state: a tensor is taken from the checkpoint when the
\* checkpoint has it with the size the model's own tensor has.
LoadState(self, checkpoint) ==
    LET source == checkpoint.state_dict
        target == self.model
    IN  [self EXCEPT !.model =
            [key \in DOMAIN target |->
                IF key \in DOMAIN source /\ source[key].size = target[key].size
                THEN source[key] ELSE target[key]]]

\* FSeq2NMSLearner.load(path): the learner afterwards and how it ended.
Load(self, files, path) ==
    IF ~files[Json(path)].exists
    THEN [self |-> self, outcome |-> "FileNotFoundError"]
    ELSE LET metadata == files[Json(path)].data
             pth_path == metadata.model_paths[1]
         IN  IF ~files[pth_path].exists
             THEN [self |-> self, outcome |-> "FileNotFoundError"]
             ELSE [self |-> LoadState(AssignParams(self, metadata), files[pth_path].data),
                   outcome |-> "True"]

\* One optimizer.step() per usable sample of an epoch.
TrainEpoch(self, samples) ==
    [self EXCEPT !.model =
        [key \in DOMAIN self.model |-> Tensor(self.model[key].size, self.model[key].val + samples)]]

RECURSIVE FitEpochs(_, _, _, _, _, _, _)
\* The training loop of fit from `epoch` on: `samples` usable samples per epoch,
\* `forward` the outcome of calling the network, `steps` and `written` what the call
\* has done so far.
FitEpochs(self, files, epoch, samples, forward, steps, written) ==
    IF epoch >= self.epochs.num
    THEN [self |-> self, files |-> files, outcome |-> "ok", steps |-> steps, written |-> written]
    ELSE IF samples > 0 /\ forward # "ok"
    THEN [self |-> self, files |-> files, outcome |-> forward, steps |-> steps,
          written |-> written]
    ELSE
        LET trained == TrainEpoch(self, samples)
            cai == self.checkpoint_after_iter
        IN  IF cai # 0 /\ epoch % cai = cai - 1
            THEN LET s1 == Save(trained, files, CheckpointPath(epoch), epoch)
                     s2 == Save(trained, s1.files, LastWeightsPath, epoch)
                 IN  IF s1.outcome # "ok"
                     THEN [self |-> trained, files |-> s1.files, outcome |-> s1.outcome,
                           steps |-> steps + samples, written |-> written \cup s1.written]
                     ELSE IF s2.outcome # "ok"
                     THEN [self |-> trained, files |-> s2.files, outcome |-> s2.outcome,
                           steps |-> steps + samples,
                           written |-> written \cup s1.written \cup s2.written]
                     ELSE FitEpochs(trained, s2.files, epoch + 1, samples, forward,
                                    steps + samples, written \cup s1.written \cup s2.written)
            ELSE FitEpochs(trained, files, epoch + 1, samples, forward, steps + samples, written)

\* A faulty variant of FitEpochsCheck: epochs equal to checkpoint_load_iter pass.
MutFitEpochsCheck(self) ==
    IF self.epochs.kind = "None" THEN "ValueError: Training epochs not specified"
    ELSE IF self.epochs.num < self.checkpoint_load_iter
    THEN "ValueError: Training epochs are less than those of the loaded model"
    ELSE "ok"
\* The check fit makes on the epochs before it trains.
FitEpochsCheck(self) ==
    IF self.epochs.kind = "None" THEN "ValueError: Training epochs not specified"
    ELSE IF self.epochs.num <= self.checkpoint_load_iter
    THEN "ValueError: Training epochs are less than those of the loaded model"
    ELSE "ok"

\* FSeq2NMSLearner.fit(dataset): the dataset is read, the classes are set, the epochs
\* are checked, and the training loop runs.
Fit(self, files, samples, forward) ==
    LET self1 == IF self.classes = PyNone THEN [self EXCEPT !.classes = PyInt(1)] ELSE self
    IN  IF FitEpochsCheck(self1) # "ok"
        THEN [self |-> self1, files |-> files, outcome |-> FitEpochsCheck(self1),
              steps |-> 0, written |-> {}]
        ELSE FitEpochs(self1, files, 0, samples, forward, 0, {})

FitCall ==
    /\ lrn_ops < MaxOps
    /\ \E samples \in 0..MaxSamples, forward \in {"ok", "TypeError"} :
        LET r == Fit(lrn, fs, samples, forward) IN
        /\ lrn' = r.self
        /\ fs' = r.files
        /\ lrn_result' = [op |-> "fit", path |-> "", outcome |-> r.outcome,
                          steps |-> r.steps, written |-> r.written, before |-> lrn]
    /\ lrn_ops' = lrn_ops + 1
    /\ UNCHANGED <<bridgeVars, nodeVars, slamVars, inferVars, whisperVars, intentVars, robotVars>>

SaveCall ==
    /\ lrn_ops < MaxOps
    /\ \E path \in UserPaths :
        LET r == Save(lrn, fs, path, PyNone) IN
        /\ fs' = r.files
        /\ lrn_result' = [op |-> "save", path |-> path, outcome |-> r.outcome,
                          steps |-> 0, written |-> r.written, before |-> lrn]
    /\ lrn_ops' = lrn_ops + 1
    /\ UNCHANGED <<lrn, bridgeVars, nodeVars, slamVars, inferVars, whisperVars, intentVars, robotVars>>

LoadCall ==
    /\ lrn_ops < MaxOps
    /\ \E path \in UserPaths \cup {PretrainedPath} :
        LET r == Load(lrn, fs, path) IN
        /\ lrn' = r.self
        /\ lrn_result' = [op |-> "load", path |-> path, outcome |-> r.outcome,
                          steps |-> 0, written |-> {}, before |-> lrn]
    /\ lrn_ops' = lrn_ops + 1
    /\ UNCHANGED <<fs, bridgeVars, nodeVars, slamVars, inferVars, whisperVars, intentVars, robotVars>>

LearnerNext ==
    \/ FitCall
    \/ SaveCall
    \/ LoadCall

\* A model somebody else saved: its files, as a download unpacks them.
PretrainedFiles(app_input_dim) ==
    LET other == LearnerInit(PyNone, 0, 0, app_input_dim)
        trained == TrainEpoch(other, 1)
    IN  [f \in FileNames |->
            IF f = Pth(PretrainedPath)
            THEN File([state_dict |-> trained.model, current_epoch |-> PyInt(7)])
            ELSE IF f = Json(PretrainedPath) THEN File(Metadata(trained, PretrainedPath))
            ELSE NoFile]

InitLearner ==
    /\ \E e \in EpochArgs, cai \in CheckpointAfterIters, cli \in CheckpointLoadIters,
          dim \in AppInputDims :
        lrn = LearnerInit(e, cai, cli, dim)
    /\ fs \in {[f \in FileNames |-> NoFile]} \cup {PretrainedFiles(d) : d \in AppInputDims}
    /\ lrn_result = [op |-> "init", path |-> "", outcome |-> "ok", steps |-> 0,
                     written |-> {}, before |-> lrn]
    /\ lrn_ops = 0
    /\ b_in = <<>> /\ b_msg = <<>> /\ b_out = <<>> /\ b_pc = "idle"
    /\ yolo_args = <<>> /\ yolo_self = <<>> /\ yolo_out = <<>> /\ yolo_inputs = 0
    /\ gem_args = <<>> /\ gem_self = <<>> /\ gem_out = <<>> /\ gem_inputs = 0
    /\ slam_arg = "" /\ slam_self = <<>> /\ slam_calls = <<>> /\ slam_exc = ""
    /\ inf_in = <<>> /\ inf_out = <<>> /\ model_calls = 0
    /\ wh_args = <<>> /\ wh_self = <<>> /\ wh_result = <<>> /\ wh_calls = 0 /\ wh_ops = 0
    /\ it_pc = 0 /\ it_text = <<>> /\ it_learners = <<>> /\ it_fs = <<>> /\ it_preds = <<>>
    /\ rc_group = <<>> /\ rc_h = <<>>

SpecLearner == InitLearner /\ [][LearnerNext]_vars

\* C7: on a freshly constructed learner save(path) completes without error and writes
\* path.pth and path.json, and a following load(path) returns True and leaves lq_dim,
\* sq_dim, num_JPUs, geom_input_dim, app_input_dim and the model state equal to the
\* saved ones.
C7_SaveLoadRoundTrip ==
    /\ lrn_result.op = "save" =>
        /\ lrn_result.outcome = "ok"
        /\ fs[Pth(lrn_result.path)].exists
        /\ fs[Json(lrn_result.path)].exists
    /\ (lrn_result.op = "load" /\ lrn_result.path \in UserPaths
            /\ fs[Pth(lrn_result.path)].exists) =>
        /\ lrn_result.outcome = "True"
        /\ Metadata(lrn, lrn_result.path) = fs[Json(lrn_result.path)].data
        /\ lrn.model = fs[Pth(lrn_result.path)].data.state_dict

\* What save does: it writes path.pth, raises AttributeError (the learner has no
\* app_feats attribute) and never writes path.json, so load(path) of a saved path
\* raises FileNotFoundError.
SaveRaisesAfterPth ==
    /\ lrn_result.op = "save" =>
        /\ lrn_result.outcome = "AttributeError"
        /\ fs[Pth(lrn_result.path)].exists
        /\ ~fs[Json(lrn_result.path)].exists
    /\ (lrn_result.op = "load" /\ lrn_result.path \in UserPaths) =>
        lrn_result.outcome = "FileNotFoundError"

\* C10: fit raises ValueError when epochs is None ('Training epochs not specified')
\* or when epochs <= checkpoint_load_iter ('Training epochs are less than those of
\* the loaded model'), and in both cases performs no optimizer step and saves no
\* checkpoint.
C10_FitRejectsEpochs ==
    lrn_result.op = "fit" =>
        LET b == lrn_result.before
            rejected ==
                /\ lrn_result.steps = 0
                /\ lrn_result.written = {}
                /\ lrn.model = b.model
        IN  /\ b.epochs.kind = "None" =>
                /\ lrn_result.outcome = "ValueError: Training epochs not specified"
                /\ rejected
            /\ (b.epochs.kind = "int" /\ b.epochs.num <= b.checkpoint_load_iter) =>
                /\ lrn_result.outcome =
                    "ValueError: Training epochs are less than those of the loaded model"
                /\ rejected

\* fit was called with epochs = 2 on a learner whose checkpoint_load_iter is 2 and
\* which checkpoints every second epoch: it raised, and trained nothing.
C10_Witness ==
    /\ lrn_result.op = "fit"
    /\ lrn_result.before.epochs = PyInt(2)
    /\ lrn_result.before.checkpoint_load_iter = 2
    /\ lrn_result.before.checkpoint_after_iter = 2
    /\ lrn_result.outcome = "ValueError: Training epochs are less than those of the loaded model"
    /\ lrn_result.steps = 0

\* fit can train: a call that made optimizer steps and wrote a checkpoint file.
FitTrains ==
    /\ lrn_result.op = "fit"
    /\ lrn_result.steps > 0
    /\ lrn_result.written # {}

(***************************************************************************)
(* FSeq2NMSLearner.infer.  Scores and thresholds are counted in            *)
(* hundredths; a box is <<x1, y1, x2, y2>>.                                *)
(***************************************************************************)
MaxDet == 2

\* scores > 0.05
ScoreFloor == 5
\* (x2 - x1) > 4 and (y2 - y1) > 4
MinSide == 4

InferBoxes == {<<0, 0, 10, 10>>, <<0, 0, 4, 10>>, <<2, 2, 10, 6>>, <<1, 1, 6, 6>>}
InferScores == {5, 6, 90}
PredVals == {10, 50}
Thresholds == {10}
IouFilterings == {PyNone, PyInt(80)}
\* img_res: the default None, or the resolution of the image.
ImgResNone == "None"
ImgRes == {ImgResNone, "(640, 480)"}

InferArgs ==
    [boxes : SeqsUpTo(InferBoxes, MaxDet),
     scores : SeqsUpTo(InferScores, MaxDet),
     cols : {1, 2},
     boxes_sorted : BOOLEAN,
     max_dt_boxes : 0..MaxDet,
     img_res : ImgRes,
     threshold : Thresholds,
     iou_filtering : IouFilterings]

\* A faulty variant of InferValidate: the sizes are compared before the columns.
MutInferValidate(boxes, scores, cols) ==
    IF Len(scores) = 0 THEN "empty"
    ELSE IF Len(boxes) # Len(scores) THEN "ValueError: size"
    ELSE IF cols > 1 THEN "ValueError: multi-class"
    ELSE "ok"
\* The checks infer makes before it touches the boxes, in their order.
InferValidate(boxes, scores, cols) ==
    IF Len(scores) = 0 THEN "empty"
    ELSE IF cols > 1 THEN "ValueError: multi-class"
    ELSE IF Len(boxes) # Len(scores) THEN "ValueError: size"
    ELSE "ok"

\* keep_ids = torch.where(scores > 0.05)
KeepAbove(dets) ==
    LET Test(d) == d.score > ScoreFloor IN SelectSeq(dets, Test)

\* torch.sort(scores, descending=True): any order of the detections with the scores
\* descending (the order of equal scores is not specified).
SortOutcomes(dets) ==
    LET n == Len(dets)
        perms == {f \in [1..n -> 1..n] : \A i, j \in 1..n : i # j => f[i] # f[j]}
    IN  {[i \in 1..n |-> dets[f[i]]] : f \in
            {g \in perms : \A i \in 1..n : \A j \in 1..n :
                i < j => dets[g[i]].score >= dets[g[j]].score}}

\* A faulty variant of ValidSize: sides of exactly 4 pass.
MutValidSize(dets) ==
    LET Test(d) == (d.box[3] - d.box[1]) >= MinSide /\ (d.box[4] - d.box[2]) >= MinSide
    IN  SelectSeq(dets, Test)
\* val_ids: the boxes wider and higher than 4.
ValidSize(dets) ==
    LET Test(d) == (d.box[3] - d.box[1]) > MinSide /\ (d.box[4] - d.box[2]) > MinSide
    IN  SelectSeq(dets, Test)

RECURSIVE Pick(_, _, _)
\* The elements of dets whose positions are in ids, in order, from position i on.
Pick(dets, ids, i) ==
    IF i > Len(dets) THEN <<>>
    ELSE (IF i \in ids THEN <<dets[i]>> ELSE <<>>) \o Pick(dets, ids, i + 1)

\* nms_utils.apply_torchNMS: it removes detections; which ones is left open.
ApplyTorchNMS(dets) == {Pick(dets, ids, 1) : ids \in SUBSET (1..Len(dets))}

\* boxes[:max_dt_boxes]
Truncate(dets, max_dt_boxes) ==
    SubSeq(dets, 1, IF max_dt_boxes < Len(dets) THEN max_dt_boxes ELSE Len(dets))

\* What infer returns once the network has given its predictions: the boxes whose
\* prediction is above the threshold (`src`: where each was in the input).
InferReturn(dets, preds, threshold) ==
    LET ids == {i \in 1..Len(dets) : preds[i] > threshold}
        kept == Pick([i \in 1..Len(dets) |-> [dets[i] EXCEPT !.score = preds[i]]], ids, 1)
    IN  [kind |-> "returned",
         exc |-> "",
         boxes |-> [k \in 1..Len(kept) |->
                      BoundingBox(PyInt(0), kept[k].box[1], kept[k].box[2],
                                  kept[k].box[3] - kept[k].box[1],
                                  kept[k].box[4] - kept[k].box[2],
                                  kept[k].score)],
         src |-> [k \in 1..Len(kept) |-> kept[k].src],
         model_called |-> 1]

\* compute_geometrical_feats reads resolution[1] and resolution[0].
GeomFeatsRaises(resolution) == resolution = ImgResNone

\* FSeq2Net's forward pass: one prediction per box, or an exception.
ModelForward(dets) ==
    [ok : {TRUE}, preds : [1..Len(dets) -> PredVals]]
    \cup {[ok |-> FALSE, preds |-> <<>>]}

InferEarly(kind, exc) ==
    [kind |-> kind, exc |-> exc, boxes |-> <<>>, src |-> <<>>, model_called |-> 0]

\* FSeq2NMSLearner.infer(boxes, scores, boxes_sorted, max_dt_boxes, img_res,
\* threshold): every way the call can end.
InferOutcomes(a) ==
    LET v == InferValidate(a.boxes, a.scores, a.cols) IN
    IF v = "empty" THEN {InferEarly("returned", "")}
    ELSE IF v # "ok" THEN {InferEarly("raised", v)}
    ELSE
        LET dets0 == [i \in 1..Len(a.scores) |->
                        [src |-> i, box |-> a.boxes[i], score |-> a.scores[i]]]
            dets1 == KeepAbove(dets0)
            sorted == IF a.boxes_sorted THEN {dets1} ELSE SortOutcomes(dets1)
            Filtered(d) ==
                IF a.iou_filtering # PyNone /\ 100 > a.iou_filtering.num
                        /\ a.iou_filtering.num > 0
                THEN ApplyTorchNMS(ValidSize(d)) ELSE {ValidSize(d)}
            Final(d) == Truncate(d, a.max_dt_boxes)
        IN  IF GeomFeatsRaises(a.img_res)
            THEN {InferEarly("raised", "TypeError: 'NoneType' object is not subscriptable")}
            ELSE UNION {UNION {
                {IF m.ok THEN InferReturn(Final(d4), m.preds, a.threshold)
                 ELSE [InferEarly("raised", "Error in forward") EXCEPT !.model_called = 1] :
                    m \in ModelForward(Final(d4))} :
                d4 \in Filtered(d2)} : d2 \in sorted}

InferPending == InferEarly("pending", "")

InferCall ==
    /\ inf_out = InferPending
    /\ inf_out' \in InferOutcomes(inf_in)
    /\ model_calls' = model_calls + inf_out'.model_called
    /\ UNCHANGED <<inf_in, bridgeVars, nodeVars, slamVars, learnerVars, whisperVars, intentVars,
            robotVars>>

InferNext ==
    \/ InferCall

InitInfer ==
    /\ inf_in \in InferArgs
    /\ inf_out = InferPending
    /\ model_calls = 0
    /\ b_in = <<>> /\ b_msg = <<>> /\ b_out = <<>> /\ b_pc = "idle"
    /\ yolo_args = <<>> /\ yolo_self = <<>> /\ yolo_out = <<>> /\ yolo_inputs = 0
    /\ gem_args = <<>> /\ gem_self = <<>> /\ gem_out = <<>> /\ gem_inputs = 0
    /\ slam_arg = "" /\ slam_self = <<>> /\ slam_calls = <<>> /\ slam_exc = ""
    /\ lrn = <<>> /\ fs = <<>> /\ lrn_result = <<>> /\ lrn_ops = 0
    /\ wh_args = <<>> /\ wh_self = <<>> /\ wh_result = <<>> /\ wh_calls = 0 /\ wh_ops = 0
    /\ it_pc = 0 /\ it_text = <<>> /\ it_learners = <<>> /\ it_fs = <<>> /\ it_preds = <<>>
    /\ rc_group = <<>> /\ rc_h = <<>>

SpecInfer == InitInfer /\ [][InferNext]_vars

\* C8: infer only removes detections: every box it returns is one of the input boxes,
\* had an input score > 0.05, has width > 4 and height > 4, received a predicted score
\* > threshold, and no more than max_dt_boxes boxes are returned.
C8_InferOnlyRemoves ==
    inf_out.kind = "returned" =>
        /\ Len(inf_out.boxes) <= inf_in.max_dt_boxes
        /\ \A j, k \in 1..Len(inf_out.boxes) : j # k => inf_out.src[j] # inf_out.src[k]
        /\ \A k \in 1..Len(inf_out.boxes) :
            LET i == inf_out.src[k]
                out == inf_out.boxes[k]
            IN  /\ i \in 1..Len(inf_in.boxes)
                /\ out.left = inf_in.boxes[i][1]
                /\ out.top = inf_in.boxes[i][2]
                /\ out.left + out.width = inf_in.boxes[i][3]
                /\ out.top + out.height = inf_in.boxes[i][4]
                /\ inf_in.scores[i] > ScoreFloor
                /\ out.width > MinSide
                /\ out.height > MinSide
                /\ out.confidence > inf_in.threshold

\* infer was given a box of width 4 with the best score and a valid box: it returned
\* the valid box alone.
C8_Witness ==
    /\ inf_out.kind = "returned"
    /\ inf_in.boxes = <<<<0, 0, 4, 10>>, <<1, 1, 6, 6>>>>
    /\ inf_in.scores = <<90, 6>>
    /\ inf_in.max_dt_boxes = 2
    /\ inf_in.img_res # ImgResNone
    /\ Len(inf_out.boxes) = 1
    /\ inf_out.src = <<2>>
    /\ inf_out.boxes[1].confidence = 50

\* C9: infer validates its inputs in this order, without invoking the model: scores
\* with zero rows give an empty BoundingBoxList; otherwise scores with more than one
\* column raise ValueError (multi-class); otherwise boxes and scores with different
\* numbers of rows raise ValueError.
C9_InferValidationOrder ==
    inf_out.kind # "pending" =>
        /\ Len(inf_in.scores) = 0 =>
            inf_out = InferEarly("returned", "") /\ model_calls = 0
        /\ (Len(inf_in.scores) > 0 /\ inf_in.cols > 1) =>
            inf_out = InferEarly("raised", "ValueError: multi-class") /\ model_calls = 0
        /\ (Len(inf_in.scores) > 0 /\ inf_in.cols <= 1
                /\ Len(inf_in.boxes) # Len(inf_in.scores)) =>
            inf_out = InferEarly("raised", "ValueError: size") /\ model_calls = 0

\* infer was given two-column scores and a different number of boxes: the multi-class
\* error is the one raised.
C9_Witness ==
    /\ inf_out.kind = "raised"
    /\ inf_in.cols = 2
    /\ Len(inf_in.scores) = 2
    /\ Len(inf_in.boxes) = 1
    /\ inf_out.exc = "ValueError: multi-class"
    /\ model_calls = 0

(***************************************************************************)
(* WhisperLearner: construction, load and infer.  The whisper library is   *)
(* called through load_model, load_audio and model.transcribe; each of     *)
(* them returns or raises.                                                 *)
(***************************************************************************)
MaxWhisperOps == 3

WhisperDevices == {"cpu", "cuda"}
WhisperArgs == [device : WhisperDevices, fp16 : BOOLEAN]

\* A faulty variant of WhisperFp16: fp16 is kept as given on every device.
MutWhisperFp16(device, fp16) == fp16
\* self.fp16 after `if self.device == "cpu" and self.fp16: self.fp16 = False`
WhisperFp16(device, fp16) == IF device = "cpu" /\ fp16 THEN FALSE ELSE fp16

\* WhisperLearner.__init__(fp16=..., device=...)
WhisperInit(args) ==
    LET fp16 == WhisperFp16(args.device, args.fp16) IN
    [device |-> args.device,
     fp16 |-> fp16,
     decode_options |-> [task |-> "transcribe", fp16 |-> fp16],
     model_name |-> PyNone,
     has_model |-> FALSE]

WhisperNames == {PyNone, PyStr(<<"t", "i", "n", "y">>)}

\* WhisperLearner.load(name): the learner afterwards and how the call ended;
\* `loads` says whether whisper.load_model returned a model.
WhisperLoad(self, name, loads) ==
    IF name = PyNone THEN [self |-> self, outcome |-> Raised("ValueError")]
    ELSE IF loads
    THEN [self |-> [self EXCEPT !.model_name = name, !.has_model = TRUE],
          outcome |-> Returned("None")]
    ELSE [self |-> [self EXCEPT !.model_name = name], outcome |-> Raised("RuntimeError")]

\* The audio arguments: a Timeseries (rows of samples), a torch.Tensor, a np.ndarray,
\* a str (the path of a file), and two values of other types.
AudioKinds == {"Timeseries", "Tensor", "ndarray", "str", "list", "NoneType"}
AudioRows == <<<<1, 2>>, <<3, 4>>>>
Audio(kind) ==
    [kind |-> kind, rows |-> IF kind \in {"Timeseries", "Tensor", "ndarray"} THEN AudioRows ELSE <<>>]
Audios == {Audio(k) : k \in AudioKinds}

\* A faulty variant of WhisperAccepts: a list is taken as well.
MutWhisperAccepts(audio) == audio.kind \in {"Timeseries", "Tensor", "ndarray", "str", "list"}
\* The isinstance tests of infer.
WhisperAccepts(audio) == audio.kind \in {"Timeseries", "Tensor", "ndarray", "str"}

RECURSIVE Flatten(_)
\* numpy reshape(-1)
Flatten(rows) == IF rows = <<>> THEN <<>> ELSE Head(rows) \o Flatten(Tail(rows))

\* The data infer hands to transcribe; `loaded` is what whisper.load_audio returned
\* for a str.
WhisperData(audio, loaded) ==
    IF audio.kind = "Timeseries" THEN <<Flatten(audio.rows)>>
    ELSE IF audio.kind = "str" THEN loaded
    ELSE audio.rows

\* whisper.load_audio(path): the samples of the file, or it raises.
LoadAudioOutcomes == {Returned(<<<<5, 6>>>>), Raised("RuntimeError")}

\* The dictionaries model.transcribe returns.
TranscribeResults == [text : {"", "hello"}, segments : {<<>>, <<"hello">>}, language : {"en"}]
NoTranscript == [text |-> "", segments |-> <<>>, language |-> ""]

\* engine.target.WhisperTranscription(text, segments)
WhisperTranscription(text, segments) == [text |-> text, segments |-> segments]

WhisperInferEnd(audio, stage, outcome, calls, data, transcribed) ==
    [op |-> "infer", audio |-> audio, stage |-> stage, outcome |-> outcome,
     calls |-> calls, data |-> data, transcribed |-> transcribed]

\* WhisperLearner.infer(audio): every way the call can end.  `stage` is where it
\* ended: at the type test, in load_audio, reading self.model, in transcribe, or
\* at the return.
WhisperInferOutcomes(self, audio) ==
    IF ~WhisperAccepts(audio)
    THEN {WhisperInferEnd(audio, "type", Raised("TypeError"), 0, <<>>, NoTranscript)}
    ELSE UNION {
        IF ~loaded.ok
        THEN {WhisperInferEnd(audio, "load_audio", loaded, 0, <<>>, NoTranscript)}
        ELSE LET data == WhisperData(audio, loaded.val) IN
             IF ~self.has_model
             THEN {WhisperInferEnd(audio, "model", Raised("AttributeError"), 0, data,
                                   NoTranscript)}
             ELSE {WhisperInferEnd(audio, "done",
                                   Returned(WhisperTranscription(r.text, r.segments)),
                                   1, data, r) : r \in TranscribeResults}
                  \cup {WhisperInferEnd(audio, "transcribe", Raised("RuntimeError"), 1,
                                        data, NoTranscript)} :
        loaded \in IF audio.kind = "str" THEN LoadAudioOutcomes ELSE {Returned(<<>>)}}

WhisperLoadCall ==
    /\ wh_ops < MaxWhisperOps
    /\ \E name \in WhisperNames, loads \in BOOLEAN :
        LET r == WhisperLoad(wh_self, name, loads) IN
        /\ wh_self' = r.self
        /\ wh_result' = [op |-> "load", audio |-> Audio("NoneType"), stage |-> "",
                         outcome |-> r.outcome, calls |-> 0, data |-> <<>>,
                         transcribed |-> NoTranscript]
    /\ wh_ops' = wh_ops + 1
    /\ UNCHANGED <<wh_args, wh_calls, bridgeVars, nodeVars, slamVars, learnerVars, inferVars,
                   intentVars, robotVars>>

WhisperInferCall ==
    /\ wh_ops < MaxWhisperOps
    /\ \E audio \in Audios :
        \E r \in WhisperInferOutcomes(wh_self, audio) :
            /\ wh_result' = r
            /\ wh_calls' = wh_calls + r.calls
    /\ wh_ops' = wh_ops + 1
    /\ UNCHANGED <<wh_args, wh_self, bridgeVars, nodeVars, slamVars, learnerVars, inferVars,
                   intentVars, robotVars>>

WhisperNext ==
    \/ WhisperLoadCall
    \/ WhisperInferCall

InitWhisper ==
    /\ wh_args \in WhisperArgs
    /\ wh_self = WhisperInit(wh_args)
    /\ wh_result = <<>>
    /\ wh_calls = 0
    /\ wh_ops = 0
    /\ b_in = <<>> /\ b_msg = <<>> /\ b_out = <<>> /\ b_pc = "idle"
    /\ yolo_args = <<>> /\ yolo_self = <<>> /\ yolo_out = <<>> /\ yolo_inputs = 0
    /\ gem_args = <<>> /\ gem_self = <<>> /\ gem_out = <<>> /\ gem_inputs = 0
    /\ slam_arg = "" /\ slam_self = <<>> /\ slam_calls = <<>> /\ slam_exc = ""
    /\ lrn = <<>> /\ fs = <<>> /\ lrn_result = <<>> /\ lrn_ops = 0
    /\ inf_in = <<>> /\ inf_out = <<>> /\ model_calls = 0
    /\ it_pc = 0 /\ it_text = <<>> /\ it_learners = <<>> /\ it_fs = <<>> /\ it_preds = <<>>
    /\ rc_group = <<>> /\ rc_h = <<>>

SpecWhisper == InitWhisper /\ [][WhisperNext]_vars

WhisperInferred == wh_result # <<>> /\ wh_result.op = "infer"
AcceptedKinds == {"Timeseries", "Tensor", "ndarray", "str"}

\* C11 as stated: infer raises TypeError, without calling transcribe, for an audio
\* that is not a Timeseries, torch.Tensor, np.ndarray or str; for those four kinds it
\* calls transcribe exactly once and returns a WhisperTranscription built from the
\* text and the segments of the result.
C11_InferTranscribesOnce ==
    WhisperInferred =>
        IF wh_result.audio.kind \notin AcceptedKinds
        THEN wh_result.outcome = Raised("TypeError") /\ wh_result.calls = 0
        ELSE /\ wh_result.calls = 1
             /\ wh_result.outcome.ok
             /\ wh_result.outcome.val =
                    WhisperTranscription(wh_result.transcribed.text,
                                         wh_result.transcribed.segments)

\* C11 (amended): infer raises TypeError, without calling transcribe, for an audio of
\* any other type.  For the four accepted kinds it calls transcribe at most once:
\* exactly once unless whisper.load_audio raised for a str or no model is loaded, in
\* which cases it is not called and the exception is the outcome; when transcribe
\* returns, infer returns the WhisperTranscription of the result's text and segments.
C11_InferTranscribes ==
    WhisperInferred =>
        IF wh_result.audio.kind \notin AcceptedKinds
        THEN wh_result.outcome = Raised("TypeError") /\ wh_result.calls = 0
        ELSE /\ wh_result.calls \in {0, 1}
             /\ wh_result.calls = 0 <=> wh_result.stage \in {"load_audio", "model"}
             /\ wh_result.stage = "load_audio" => wh_result.audio.kind = "str"
             /\ wh_result.stage \in {"load_audio", "model", "transcribe"} =>
                    ~wh_result.outcome.ok
             /\ wh_result.stage = "done" =>
                    wh_result.outcome =
                        Returned(WhisperTranscription(wh_result.transcribed.text,
                                                      wh_result.transcribed.segments))

\* The third call made on the learner was infer with a Timeseries, a model being
\* loaded: the flattened samples were handed to transcribe, which has been called
\* once in all, and the transcription of its result was returned.
C11_Witness ==
    /\ WhisperInferred
    /\ wh_result.audio.kind = "Timeseries"
    /\ wh_result.data = <<<<1, 2, 3, 4>>>>
    /\ wh_result.stage = "done"
    /\ wh_result.transcribed.text = "hello"
    /\ wh_result.outcome = Returned(WhisperTranscription("hello", <<"hello">>))
    /\ wh_calls = 1
    /\ wh_ops = 3

\* C12: a WhisperLearner constructed with device "cpu" has self.fp16 and
\* decode_options.fp16 both False whatever fp16 was given; with any other device both
\* are the fp16 given.  No later call changes them.
C12_Fp16OffOnCpu ==
    IF wh_args.device = "cpu"
    THEN wh_self.fp16 = FALSE /\ wh_self.decode_options.fp16 = FALSE
    ELSE wh_self.fp16 = wh_args.fp16 /\ wh_self.decode_options.fp16 = wh_args.fp16

\* A learner constructed with device "cpu" and fp16 True, after a model was loaded
\* and infer returned.
C12_Witness ==
    /\ wh_args = [device |-> "cpu", fp16 |-> TRUE]
    /\ wh_self.fp16 = FALSE
    /\ wh_self.decode_options.fp16 = FALSE
    /\ wh_self.has_model
    /\ WhisperInferred
    /\ wh_result.stage = "done"

(***************************************************************************)
(* IntentRecognitionLearner under test_save_load: a learner is fitted and  *)
(* saved, a second learner is constructed and loads the file, and both     *)
(* infer on the same text.  The learner is a Learner (fit / infer / save / *)
(* load); its weights are a number, the weights of a newly constructed     *)
(* learner and those fit ends with are open.                               *)
(***************************************************************************)
IntentWeights == {1, 2, 3, 4}
IntentTexts == {<<"a">>, <<"a", "b">>, <<"a", "b", "c">>}
IntentClasses == 3
TempDir == "tmp_<time>"
IntentPaths == {TempDir}
NoIntentFile == 0
\* A learner: the weights of its model (`initial`: those it was constructed with).
IntentLearner(weights, initial) == [weights |-> weights, initial |-> initial]
NoIntentLearner == IntentLearner(0, 0)

\* The statements of test_save_load up to the assertion, in order.  A faulty variant
\* saves before it fits.
MutTestSaveLoad ==
    << [op |-> "construct", who |-> "learner"],
       [op |-> "save", who |-> "learner"],
       [op |-> "fit", who |-> "learner"],
       [op |-> "construct", who |-> "new_learner"],
       [op |-> "load", who |-> "new_learner"],
       [op |-> "infer", who |-> "learner"],
       [op |-> "infer", who |-> "new_learner"] >>
TestSaveLoad ==
    << [op |-> "construct", who |-> "learner"],
       [op |-> "fit", who |-> "learner"],
       [op |-> "save", who |-> "learner"],
       [op |-> "construct", who |-> "new_learner"],
       [op |-> "load", who |-> "new_learner"],
       [op |-> "infer", who |-> "learner"],
       [op |-> "infer", who |-> "new_learner"] >>

\* IntentRecognitionLearner.fit: training changes the parameters of the model.
IntentFit(weights) == IntentWeights \ {weights}

\* IntentRecognitionLearner.save(path): the model's weights are written to path.
IntentSave(weights, files, path) == [files EXCEPT ![path] = weights]

\* IntentRecognitionLearner.load(path): the weights read from path.
IntentLoad(files, path) ==
    IF files[path] = NoIntentFile THEN Raised("FileNotFoundError") ELSE Returned(files[path])

IntentConfidence(weights, text, class) == (weights * (class + Len(text))) % 10

RECURSIVE SortDescending(_)
SortDescending(s) ==
    IF s = {} THEN <<>>
    ELSE LET top == CHOOSE c \in s : \A d \in s : <<c.confidence, c.data>> = <<d.confidence, d.data>>
                        \/ c.confidence > d.confidence
                        \/ (c.confidence = d.confidence /\ c.data < d.data)
         IN  <<top>> \o SortDescending(s \ {top})

\* IntentRecognitionLearner.infer({'text': text}, modality='language'): a list of
\* Category, one per class, the most confident first.
IntentInfer(weights, text) ==
    SortDescending({[data |-> c, confidence |-> IntentConfidence(weights, text, c)] :
                        c \in 1..IntentClasses})

IntentStep(op) ==
    /\ it_pc \in 1..Len(TestSaveLoad)
    /\ TestSaveLoad[it_pc].op = op

IntentWho == TestSaveLoad[it_pc].who

IntentAdvance(learners, files, preds) ==
    /\ it_pc' = it_pc + 1
    /\ it_learners' = learners
    /\ it_fs' = files
    /\ it_preds' = preds
    /\ UNCHANGED <<it_text, bridgeVars, nodeVars, slamVars, learnerVars, inferVars, whisperVars,
            robotVars>>

IntentConstructStep ==
    /\ IntentStep("construct")
    /\ \E w \in IntentWeights :
        IntentAdvance([it_learners EXCEPT ![IntentWho] = IntentLearner(w, w)], it_fs, it_preds)

IntentFitStep ==
    /\ IntentStep("fit")
    /\ it_learners[IntentWho] # NoIntentLearner
    /\ \E w \in IntentFit(it_learners[IntentWho].weights) :
        IntentAdvance([it_learners EXCEPT ![IntentWho].weights = w], it_fs, it_preds)

IntentSaveStep ==
    /\ IntentStep("save")
    /\ it_learners[IntentWho] # NoIntentLearner
    /\ IntentAdvance(it_learners, IntentSave(it_learners[IntentWho].weights, it_fs, TempDir),
                     it_preds)

\* load: when it raises, the test ends there.
IntentLoadStep ==
    /\ IntentStep("load")
    /\ LET r == IntentLoad(it_fs, TempDir) IN
        r.ok /\ IntentAdvance([it_learners EXCEPT ![IntentWho].weights = r.val], it_fs, it_preds)

IntentInferStep ==
    /\ IntentStep("infer")
    /\ it_learners[IntentWho] # NoIntentLearner
    /\ IntentAdvance(it_learners, it_fs,
                     [it_preds EXCEPT ![IntentWho] =
                        IntentInfer(it_learners[IntentWho].weights, it_text)])

IntentNext ==
    \/ IntentConstructStep
    \/ IntentFitStep
    \/ IntentSaveStep
    \/ IntentLoadStep
    \/ IntentInferStep

InitIntent ==
    /\ it_pc = 1
    /\ it_text \in IntentTexts
    /\ it_learners = [learner |-> NoIntentLearner, new_learner |-> NoIntentLearner]
    /\ it_fs = [p \in IntentPaths |-> NoIntentFile]
    /\ it_preds = [learner |-> <<>>, new_learner |-> <<>>]
    /\ b_in = <<>> /\ b_msg = <<>> /\ b_out = <<>> /\ b_pc = "idle"
    /\ yolo_args = <<>> /\ yolo_self = <<>> /\ yolo_out = <<>> /\ yolo_inputs = 0
    /\ gem_args = <<>> /\ gem_self = <<>> /\ gem_out = <<>> /\ gem_inputs = 0
    /\ slam_arg = "" /\ slam_self = <<>> /\ slam_calls = <<>> /\ slam_exc = ""
    /\ lrn = <<>> /\ fs = <<>> /\ lrn_result = <<>> /\ lrn_ops = 0
    /\ inf_in = <<>> /\ inf_out = <<>> /\ model_calls = 0
    /\ wh_args = <<>> /\ wh_self = <<>> /\ wh_result = <<>> /\ wh_calls = 0 /\ wh_ops = 0
    /\ rc_group = <<>> /\ rc_h = <<>>

SpecIntent == InitIntent /\ [][IntentNext]_vars

IntentTestDone == it_pc = Len(TestSaveLoad) + 1

MaxHandlers == 2

Handlers == 1..MaxHandlers
RobotGoals == {"pose_a", "pose_b"}
NoTarget == [by |-> 0, pose |-> "none"]
PoseTarget(h, pose) == [by |-> h, pose |-> pose]

\* The requests: /opendr/rotate_ee, /opendr/set_pose_target and /opendr/stop_action.
RobotRequests ==
    [kind : {"rotate_ee", "move_to_cartesian_target"}, goal : RobotGoals]
    \cup [kind : {"stop"}, goal : {"none"}]

\* A handler thread: where it is in its sequence, the target its go planned for
\* (`executed`), and whether a stop or clear_pose_targets of another handler fell
\* between its set_pose_target and its go (`interrupted`).
Handler(req, pc) ==
    [kind |-> req.kind, goal |-> req.goal, pc |-> pc, executed |-> NoTarget,
     interrupted |-> FALSE, success |-> TRUE]

\* The handlers after another handler `by` has called stop or clear_pose_targets: one
\* that has called set_pose_target and not yet go (pc = "go") is marked.
Interrupt(handlers, by) ==
    [h \in Handlers |->
        IF h # by /\ handlers[h].pc = "go"
        THEN [handlers[h] EXCEPT !.interrupted = TRUE] ELSE handlers[h]]

RobotUnchanged == UNCHANGED <<bridgeVars, nodeVars, slamVars, learnerVars, inferVars,
                              whisperVars, intentVars>>

\* self.group.set_pose_target(wpose) in rotate_ee, (pose_goal) in
\* move_to_cartesian_target
SetPoseTarget(h) ==
    /\ rc_h[h].pc = "set"
    /\ rc_group' = [rc_group EXCEPT !.target = PoseTarget(h, rc_h[h].goal)]
    /\ rc_h' = [rc_h EXCEPT ![h].pc = "go"]
    /\ RobotUnchanged

\* geometry_msgs.msg.Pose() in move_to_cartesian_target: the module is not imported
\* by name; where `from control.srv import *` does not bind it the handler ends in
\* its except clause.
PoseGoalFails(h) ==
    /\ rc_h[h].pc = "set"
    /\ rc_h[h].kind = "move_to_cartesian_target"
    /\ rc_h' = [rc_h EXCEPT ![h].pc = "done", ![h].success = FALSE]
    /\ UNCHANGED rc_group
    /\ RobotUnchanged

\* self.group.go(wait=True): plans for and moves to the target the group holds.
Go(h) ==
    /\ rc_h[h].pc = "go"
    /\ rc_h' = [rc_h EXCEPT ![h].pc = "stop", ![h].executed = rc_group.target]
    /\ UNCHANGED rc_group
    /\ RobotUnchanged

\* self.group.stop() after go
Stop(h) ==
    /\ rc_h[h].pc = "stop"
    /\ rc_h' = Interrupt([rc_h EXCEPT ![h].pc = "clear"], h)
    /\ UNCHANGED rc_group
    /\ RobotUnchanged

\* self.group.clear_pose_targets()
ClearPoseTargets(h) ==
    /\ rc_h[h].pc = "clear"
    /\ rc_group' = [rc_group EXCEPT !.target = NoTarget]
    /\ rc_h' = Interrupt([rc_h EXCEPT ![h].pc = "done"], h)
    /\ RobotUnchanged

\* handle_stop: self.group.stop()
HandleStop(h) ==
    /\ rc_h[h].pc = "handle_stop"
    /\ rc_h' = Interrupt([rc_h EXCEPT ![h].pc = "done"], h)
    /\ UNCHANGED rc_group
    /\ RobotUnchanged

RobotNext ==
    \E h \in Handlers :
        \/ SetPoseTarget(h)
        \/ PoseGoalFails(h)
        \/ Go(h)
        \/ Stop(h)
        \/ ClearPoseTargets(h)
        \/ HandleStop(h)

InitRobot ==
    /\ rc_group = [target |-> NoTarget]
    /\ rc_h \in [Handlers ->
                    {Handler(req, IF req.kind = "stop" THEN "handle_stop" ELSE "set") :
                        req \in RobotRequests}]
    /\ b_in = <<>> /\ b_msg = <<>> /\ b_out = <<>> /\ b_pc = "idle"
    /\ yolo_args = <<>> /\ yolo_self = <<>> /\ yolo_out = <<>> /\ yolo_inputs = 0
    /\ gem_args = <<>> /\ gem_self = <<>> /\ gem_out = <<>> /\ gem_inputs = 0
    /\ slam_arg = "" /\ slam_self = <<>> /\ slam_calls = <<>> /\ slam_exc = ""
    /\ lrn = <<>> /\ fs = <<>> /\ lrn_result = <<>> /\ lrn_ops = 0
    /\ inf_in = <<>> /\ inf_out = <<>> /\ model_calls = 0
    /\ wh_args = <<>> /\ wh_self = <<>> /\ wh_result = <<>> /\ wh_calls = 0 /\ wh_ops = 0
    /\ it_pc = 0 /\ it_text = <<>> /\ it_learners = <<>> /\ it_fs = <<>> /\ it_preds = <<>>

SpecRobot == InitRobot /\ [][RobotNext]_vars

\* C14: when requests are handled concurrently on the shared MoveGroupCommander, no
\* stop or clear_pose_targets of another handler (nor handle_stop) falls between a
\* handler's set_pose_target and its go, and the target go executes is the one that
\* handler set.
C14_HandlerSequenceAtomic ==
    \A h \in Handlers :
        /\ ~rc_h[h].interrupted
        /\ (rc_h[h].kind # "stop" /\ rc_h[h].pc \in {"stop", "clear", "done"}
                /\ rc_h[h].success) =>
            rc_h[h].executed = PoseTarget(h, rc_h[h].goal)

\* What holds without any discipline: a handler's go executes a target some handler
\* set, or none.
RobotGoExecutesSomeTarget ==
    \A h \in Handlers :
        rc_h[h].executed = NoTarget
        \/ \E g \in Handlers : rc_h[h].executed = PoseTarget(g, rc_h[g].goal)

============================================================================
